---------------------------- MODULE Spec2Model ----------------------------
(***************************************************************************)
(* Command and deployment execution engine of workbench-ui.                *)
(*                                                                         *)
(*   backend/app/agents/command_agent.py     CommandAgent                  *)
(*   backend/app/agents/deployment_agent.py  DeploymentAgent               *)
(*                                                                         *)
(* A string is a sequence of atoms: an atom is a whitespace character or a *)
(* run of non-whitespace text, so "git  status" is <<"git"," "," ",        *)
(* "status">> and "testx" is <<"test","x">>.  A script is a sequence of    *)
(* shell statements; the child process is a small-step interpreter of it   *)
(* (errexit, if/else, exit, variable assignment).  What the target         *)
(* repository and the hosting platform answer is chosen at the statement   *)
(* that asks.  Requests are issued one after the other; the locals of a    *)
(* finished call stay readable until the next call begins.                 *)
(***************************************************************************)
EXTENDS Integers, Sequences, FiniteSets, TLC

\* ------------------------------------------------------------------ bounds

\* calls the operator issues, one after the other
MaxCalls == 1
\* a failing external command exits with a status in 1..MaxExit
MaxExit == 2
\* entries of the hosting platform's release history
MaxReleases == 3
\* lines of test output handed to _parse_test_results
MaxLines == 2
\* execute calls in flight together
MaxInFlight == 2

\* ----------------------------------------------------------------- strings

Whitespace == {" ", "\t"}

IsSpace(a) == a \in Whitespace

RECURSIVE DropSpaces(_)
DropSpaces(s) ==
    IF s = <<>> THEN <<>>
    ELSE IF IsSpace(Head(s)) THEN DropSpaces(Tail(s)) ELSE s

RECURSIVE TakeWord(_)
TakeWord(s) ==
    IF s = <<>> THEN <<>>
    ELSE IF IsSpace(Head(s)) THEN <<>> ELSE <<Head(s)>> \o TakeWord(Tail(s))

RECURSIVE DropWord(_)
DropWord(s) ==
    IF s = <<>> THEN <<>>
    ELSE IF IsSpace(Head(s)) THEN s ELSE DropWord(Tail(s))

\* str.split(): the maximal runs of non-whitespace, in order
RECURSIVE Split(_)
Split(s) ==
    LET t == DropSpaces(s)
    IN  IF t = <<>> THEN <<>> ELSE <<TakeWord(t)>> \o Split(DropWord(t))

\* bool(str): the empty string is falsy
Truthy(s) == s # <<>>

\* ------------------------------------------------------------------ inputs

Commands ==
    { <<>>, <<" ">>, <<" ", "\t">>,
      <<"test">>, <<" ", "test">>, <<"test", "x">>,
      <<"lint">>, <<"format">>, <<"analyze">>, <<"migrate">>,
      <<"backup">>, <<"restore">>,
      <<"git", " ", "status">>, <<"docker", " ", "ps">>,
      <<"npm", " ", "ci">>, <<"python", " ", "x.py">>,
      <<"custom", " ", "ls">>, <<"frobnicate">>, <<"ls", " ", " ", "-la">> }

Services == {"api"}

\* Optional[Dict]: None, {}, and the backup_id values
None == [some |-> FALSE, map |-> <<>>]
Some(m) == [some |-> TRUE, map |-> m]
EmptyDict == <<>>
ArgValues ==
    { None, Some(EmptyDict) } \cup
    { Some([k \in {"backup_id"} |-> v]) : v \in {"latest", "b1", "zz"} }

\* dict.get(key, default)
DictGet(m, k, default) == IF k \in DOMAIN m THEN m[k] ELSE default

\* args or {}
OrEmpty(a) == IF a.some /\ a.map # EmptyDict THEN a.map ELSE EmptyDict


\* ------------------------------------------------------- shell statements

\* a simple command: op names the kind, arg its text
Cmd(op, arg) ==
    [op |-> op, arg |-> arg, cond |-> <<>>, body |-> <<>>, orelse |-> <<>>]

\* if cond; then body; else orelse; fi
If(cond, body, orelse) ==
    [op |-> "if", arg |-> <<>>, cond |-> cond, body |-> body, orelse |-> orelse]

\* [ -f a ] || [ -f b ]: a test on files of the target repository
FileTest(names) == <<"-f">> \o names
\* [ "a" == "b" ]
StrEq(a, b) == <<"==", a, b>>
\* [ ! -d "$VAR" ]
NotDir(var) == <<"! -d", var>>
\* [ -z "$VAR" ]
IsEmpty(var) == <<"-z", var>>
\* [ ! -z "$DATABASE_URL" ], a variable sourced from .env
EnvSet(var) == <<"! -z env", var>>

SetE == Cmd("set -e", <<>>)
Cd(dir) == Cmd("cd", <<dir>>)
Echo(text) == Cmd("echo", text)
\* an external tool
Run(words) == Cmd("run", words)
\* cmd || true, cmd 2>/dev/null || echo ...
Try(words) == Cmd("try", words)

\* ----------------------------------------------- CommandAgent: the scripts

sophia_repo == "../sophia-intel-ai"

allowed_commands ==
    { "test", "lint", "format", "analyze", "migrate", "backup", "restore",
      "git", "docker", "npm", "python", "custom" }

\* self.allowed_commands[key]
HandlerOf(key) ==
    CASE key = "test"    -> "_run_tests"
      [] key = "lint"    -> "_run_lint"
      [] key = "format"  -> "_format_code"
      [] key = "analyze" -> "_analyze_code"
      [] key = "migrate" -> "_run_migrations"
      [] key = "backup"  -> "_backup_data"
      [] key = "restore" -> "_restore_data"
      [] key = "git"     -> "_git_operation"
      [] key = "docker"  -> "_docker_operation"
      [] key = "npm"     -> "_npm_operation"
      [] key = "python"  -> "_python_operation"
      [] OTHER           -> "_custom_command"

test_script(service) ==
    << SetE, Cd(sophia_repo),
       Echo(<<"Running tests for ", service>>),
       If(FileTest(<<"pytest.ini", "setup.cfg">>),
          << Run(<<"python -m pytest tests/ -v --cov=", service>>) >>, <<>>),
       If(FileTest(<<"package.json">>), << Run(<<"npm test">>) >>, <<>>),
       Echo(<<"Tests complete!">>) >>

lint_script(service) ==
    << SetE, Cd(sophia_repo),
       Echo(<<"Linting ", service>>),
       If(FileTest(<<"pyproject.toml", ".flake8">>),
          << Run(<<"ruff check . --fix">>),
             Run(<<"mypy ", service, " --ignore-missing-imports">>) >>, <<>>),
       If(FileTest(<<".eslintrc.json", ".eslintrc.js">>),
          << Run(<<"npx eslint . --fix">>) >>, <<>>),
       Echo(<<"Linting complete!">>) >>

format_script(service) ==
    << SetE, Cd(sophia_repo),
       Echo(<<"Formatting code for ", service>>),
       If(FileTest(<<"pyproject.toml">>),
          << Run(<<"black .">>), Run(<<"isort .">>) >>, <<>>),
       If(FileTest(<<".prettierrc", "prettier.config.js">>),
          << Run(<<"npx prettier --write .">>) >>, <<>>),
       Echo(<<"Formatting complete!">>) >>

analyze_script(service) ==
    << SetE, Cd(sophia_repo),
       Echo(<<"Analyzing code for ", service>>),
       If(FileTest(<<"pyproject.toml">>),
          << Run(<<"radon cc ", service, " -s -j > /tmp/complexity.json">>),
             Try(<<"bandit -r ", service, " -f json > /tmp/security.json">>),
             Try(<<"pip-audit --desc > /tmp/dependencies.txt">>) >>, <<>>),
       Echo(<<"=== Complexity Analysis ===">>),
       Try(<<"cat /tmp/complexity.json">>),
       Echo(<<"=== Security Scan ===">>),
       Try(<<"cat /tmp/security.json">>),
       Echo(<<"=== Dependencies ===">>),
       Try(<<"cat /tmp/dependencies.txt">>),
       Echo(<<"Analysis complete!">>) >>

migration_script(service) ==
    << SetE, Cd(sophia_repo),
       Echo(<<"Running migrations for ", service>>),
       If(FileTest(<<"alembic.ini">>), << Run(<<"alembic upgrade head">>) >>, <<>>),
       If(FileTest(<<"manage.py">>), << Run(<<"python manage.py migrate">>) >>, <<>>),
       If(FileTest(<<"migrations">>), << Cmd("for", <<"migrations/*.sql">>) >>, <<>>),
       Echo(<<"Migrations complete!">>) >>

backup_script(service, timestamp) ==
    << SetE, Cd(sophia_repo),
       Echo(<<"Backing up ", service>>),
       Cmd("assign", <<"BACKUP_DIR", <<"backups", timestamp>>>>),
       Cmd("mkdir -p", <<"BACKUP_DIR">>),
       Run(<<"tar -czf $BACKUP_DIR/", service, "_code.tar.gz ", service, "/">>),
       Run(<<"cp -r config/ $BACKUP_DIR/config/">>),
       If(FileTest(<<".env">>),
          << Run(<<"source .env">>),
             If(EnvSet("DATABASE_URL"),
                << Run(<<"pg_dump $DATABASE_URL > $BACKUP_DIR/database.sql">>) >>,
                <<>>) >>, <<>>),
       Echo(<<"Backup complete: $BACKUP_DIR">>) >>

\* sensitivity variant of restore_script: no test that the directory exists
restore_script_unchecked(service, backup_id) ==
    << SetE, Cd(sophia_repo),
       Echo(<<"Restoring ", service, " from ", backup_id>>),
       If(StrEq(backup_id, "latest"),
          << Cmd("assign ls -t | head -1", <<"BACKUP_DIR", "backups">>) >>,
          << Cmd("assign", <<"BACKUP_DIR", <<"backups", backup_id>>>>) >>),
       Run(<<"tar -xzf $BACKUP_DIR/", service, "_code.tar.gz">>),
       Run(<<"cp -r $BACKUP_DIR/config/* config/">>),
       If(FileTest(<<"$BACKUP_DIR/database.sql">>),
          << Run(<<"source .env">>),
             Run(<<"psql $DATABASE_URL < $BACKUP_DIR/database.sql">>) >>, <<>>),
       Echo(<<"Restore complete from $BACKUP_DIR">>) >>

restore_script(service, backup_id) ==
    << SetE, Cd(sophia_repo),
       Echo(<<"Restoring ", service, " from ", backup_id>>),
       If(StrEq(backup_id, "latest"),
          << Cmd("assign ls -t | head -1", <<"BACKUP_DIR", "backups">>) >>,
          << Cmd("assign", <<"BACKUP_DIR", <<"backups", backup_id>>>>) >>),
       If(NotDir("BACKUP_DIR"),
          << Echo(<<"Backup not found: $BACKUP_DIR">>), Cmd("exit", <<1>>) >>, <<>>),
       Run(<<"tar -xzf $BACKUP_DIR/", service, "_code.tar.gz">>),
       Run(<<"cp -r $BACKUP_DIR/config/* config/">>),
       If(FileTest(<<"$BACKUP_DIR/database.sql">>),
          << Run(<<"source .env">>),
             Run(<<"psql $DATABASE_URL < $BACKUP_DIR/database.sql">>) >>, <<>>),
       Echo(<<"Restore complete from $BACKUP_DIR">>) >>

git_script(command) ==
    << SetE, Cd(sophia_repo),
       Echo(<<"Git operation: ">> \o command),
       Cmd("raw", command),
       Echo(<<"Git operation complete!">>) >>

docker_script(command) ==
    << SetE, Cd(sophia_repo),
       Echo(<<"Docker operation: ">> \o command),
       Cmd("raw", command),
       Echo(<<"Docker operation complete!">>) >>

npm_script(command) ==
    << SetE, Cd(sophia_repo),
       Echo(<<"NPM operation: ">> \o command),
       Cmd("raw", command),
       Echo(<<"NPM operation complete!">>) >>

python_script(command) ==
    << SetE, Cd(sophia_repo),
       Echo(<<"Python operation: ">> \o command),
       If(FileTest(<<"venv/bin/activate">>),
          << Run(<<"source venv/bin/activate">>) >>, <<>>),
       Cmd("raw", command),
       Echo(<<"Python operation complete!">>) >>

\* " ".join(words)
RECURSIVE JoinWords(_)
JoinWords(ws) ==
    IF ws = <<>> THEN <<>>
    ELSE IF Len(ws) = 1 THEN ws[1]
    ELSE ws[1] \o <<" ">> \o JoinWords(Tail(ws))

\* sensitivity variant of custom_script: the command re-joined from its words
custom_script_rejoined(command) ==
    << SetE, Cd(sophia_repo),
       Echo(<<"Custom command: ">> \o command),
       Echo(<<"Executing with FULL PRIVILEGES">>),
       Cmd("raw", JoinWords(Split(command))),
       Echo(<<"Command complete!">>) >>

custom_script(command) ==
    << SetE, Cd(sophia_repo),
       Echo(<<"Custom command: ">> \o command),
       Echo(<<"Executing with FULL PRIVILEGES">>),
       Cmd("raw", command),
       Echo(<<"Command complete!">>) >>

\* the script a handler renders from its arguments
RenderScript(h, command, service, args, timestamp) ==
    CASE h = "_run_tests"        -> test_script(service)
      [] h = "_run_lint"         -> lint_script(service)
      [] h = "_format_code"      -> format_script(service)
      [] h = "_analyze_code"     -> analyze_script(service)
      [] h = "_run_migrations"   -> migration_script(service)
      [] h = "_backup_data"      -> backup_script(service, timestamp)
      [] h = "_restore_data"     ->
            restore_script(service, DictGet(args, "backup_id", "latest"))
      [] h = "_git_operation"    -> git_script(command)
      [] h = "_docker_operation" -> docker_script(command)
      [] h = "_npm_operation"    -> npm_script(command)
      [] h = "_python_operation" -> python_script(command)
      [] OTHER                   -> custom_script(command)

\* command.split()[0] if command else "custom"; raises IndexError when the
\* command is truthy and holds only whitespace
CmdTypeRaises(command) == Truthy(command) /\ Split(command) = <<>>

CmdType(command) ==
    IF Truthy(command) THEN Split(command)[1] ELSE <<"custom">>

\* self.allowed_commands.get(cmd_type, self._custom_command)
SelectHandler(cmd_type) ==
    IF Len(cmd_type) = 1 /\ cmd_type[1] \in allowed_commands
    THEN HandlerOf(cmd_type[1])
    ELSE "_custom_command"


\* ------------------------------------------------------------------- state

VARIABLES
    pc,          \* where the call in flight stands ("idle": none in flight)
    callId,      \* calls issued so far; the call in flight is callId
    command,     \* execute(command, service, args)
    service,
    args,
    handler,     \* the handler execute selected (deploy: the path taken)
    active,      \* the function whose script runs: handler, or the nested
                 \* _git_operation of _format_code
    activeCmd,   \* the command parameter of active
    invoked,     \* handler invocations of this call, <<function, command>>
    script,      \* the text _run_script was given
    runs,        \* _run_script calls so far: each has its own timestamped path
    tmpFiles,    \* scratch files that exist under /tmp
    proc,        \* the child process: "none", "running", "exited"
    todo,        \* statements the child has still to run
    errexit,     \* the shell's -e flag
    shvars,      \* shell variables of the child
    status,      \* exit status of the last statement; the return code at exit
    trace,       \* statements the child ran, in order
    runResult,   \* what _run_script returned
    saved,       \* _format_code's own result while the commit step runs
    result,      \* the outcome the handler (or deploy) returns
    auditLog,    \* logs/commands.jsonl, one record per line
    callerGot,   \* per call: what reached the caller
    backups,     \* entries of backups/, most recently modified first
    rootDirs,    \* directories at the root of the target repository
    target,      \* deploy(target, service, version, rollback)
    version,
    rollback,
    deployment_id,
    releases,    \* the platform's release history of the app, newest first
    tracking,    \* requests sent to the deployment-tracking API
    started,     \* what datetime.utcnow() returned when deploy built its id
    inv,         \* concurrent execute calls: each invocation's frame
    clock,       \* the wall clock the concurrent invocations read
    scratch,     \* /tmp of the concurrent invocations: path -> script's owner
    logFile,     \* logs/commands.jsonl of the concurrent invocations, as text
    testOutput,  \* the output handed to _parse_test_results
    test_results, \* what _parse_test_results returned
    ids,         \* two deploy calls looked at side by side, and their ids
    proxy,       \* one request to the MCP proxy and what became of it
    wf           \* one run of the workflow event stream

inputVars == <<command, service, args, target, version, rollback>>
frameVars == <<handler, active, activeCmd, invoked, script, runResult, saved,
               result, deployment_id, started>>
procVars  == <<proc, todo, errexit, shvars, status, trace>>
fsVars    == <<tmpFiles, backups, rootDirs, releases>>
webVars   == <<ids, proxy, wf>>
sideVars  == <<inv, clock, scratch, logFile, testOutput, test_results,
               webVars>>
agentVars == <<pc, callId, inputVars, frameVars, procVars, runs, fsVars,
               auditLog, callerGot, tracking>>
vars == <<agentVars, sideVars>>

NoShVars == [BACKUP_DIR |-> <<>>, PREV_RELEASE |-> <<>>]
NoRun == [returncode |-> -1, output |-> <<>>, error |-> <<>>]
NoResult == [status |-> "none", output |-> <<>>]
\* the decimal digits
Digits == <<"0", "1", "2", "3", "4", "5", "6", "7", "8", "9">>

\* deploy has not read the clock
NoTime == <<>>

Pending == [kind |-> "pending", status |-> "none"]

Range(f) == { f[i] : i \in DOMAIN f }

\* [ -d path ] in the target repository
IsDir(path) ==
    CASE Len(path) = 1 -> path[1] \in rootDirs
      [] Len(path) = 2 ->
            path[1] = "backups" /\ "backups" \in rootDirs
                                /\ path[2] \in Range(backups)
      [] OTHER -> FALSE

\* ls -t dir | head -1: the newest entry's bare name, nothing when there is none
LsNewest(dir) ==
    IF dir = "backups" /\ "backups" \in rootDirs /\ backups # <<>>
    THEN <<backups[1]>>
    ELSE <<>>

\* jq -r '.[1].version' on the release list: the second entry's version, and
\* the text null when the list has no second entry
JqSecondVersion(list) ==
    IF Len(list) >= 2 THEN <<list[2]>> ELSE <<"null">>

\* the truth values a test can have
EvalCond(cond) ==
    CASE cond[1] = "=="   -> { cond[2] = cond[3] }
      [] cond[1] = "! -d" -> { ~IsDir(shvars[cond[2]]) }
      [] cond[1] = "-z"   -> { shvars[cond[2]] = <<>> }
      [] OTHER            -> BOOLEAN

\* the exit statuses a simple command can have
Statuses(s) ==
    CASE s.op \in {"set -e", "echo", "assign", "assign ls -t | head -1",
                   "assign fly releases | jq", "for", "try"} -> {0}
      [] s.op = "cd"  -> {0, 1}
      [] s.op = "raw" -> IF s.arg = <<>> THEN {0} ELSE 0..MaxExit
      [] OTHER        -> 0..MaxExit

\* captured standard output: the text of the echo statements that ran
Stdout(tr) ==
    LET RECURSIVE Lines(_)
        Lines(t) ==
            IF t = <<>> THEN <<>>
            ELSE IF Head(t).op = "echo"
                 THEN <<Head(t).arg>> \o Lines(Tail(t))
                 ELSE Lines(Tail(t))
    IN  Lines(tr)


\* -------------------------------------------------------------------- Init

InitBackups == { <<>>, <<"b2", "b1">> }
InitRootDirs == { {"backups"}, {"backups", "b2"} }
Timestamps == { "b2", "b3" }

\* the state after construction, whatever the environment holds
InitAgents ==
    /\ pc = "idle"
    /\ callId = 0
    /\ command = <<>> /\ service = "" /\ args = None
    /\ target = "" /\ version = "" /\ rollback = FALSE
    /\ handler = "" /\ active = "" /\ activeCmd = <<>>
    /\ invoked = <<>> /\ script = <<>>
    /\ runResult = NoRun /\ saved = NoRun /\ result = NoResult
    /\ deployment_id = <<>> /\ started = NoTime
    /\ proc = "none" /\ todo = <<>> /\ errexit = FALSE
    /\ shvars = NoShVars /\ status = 0 /\ trace = <<>>
    /\ runs = 0
    /\ tmpFiles = {}
    /\ auditLog = <<>>
    /\ callerGot = [c \in 1..MaxCalls |-> Pending]
    /\ tracking = <<>>

\* the state of the parts a specification does not exercise
InitNoCalls == inv = <<>> /\ clock = 0 /\ scratch = {} /\ logFile = <<>>
InitNoParse == testOutput = <<>> /\ test_results = <<>>
InitNoWeb == ids = <<>> /\ proxy = <<>> /\ wf = <<>>
InitSide == InitNoCalls /\ InitNoParse /\ InitNoWeb

Init ==
    /\ InitSide
    /\ InitAgents
    /\ backups \in InitBackups
    /\ rootDirs \in InitRootDirs
    /\ releases = <<>>

\* --------------------------------------------------- the child process

\* if cond; then ...; else ...; fi
StepIf ==
    /\ proc = "running" /\ todo # <<>> /\ Head(todo).op = "if"
    /\ \E b \in EvalCond(Head(todo).cond) :
          todo' = (IF b THEN Head(todo).body ELSE Head(todo).orelse) \o Tail(todo)
    /\ status' = 0
    /\ UNCHANGED <<proc, errexit, shvars, trace>>
    /\ UNCHANGED <<pc, callId, inputVars, frameVars, runs, fsVars, auditLog,
                   callerGot, tracking, sideVars>>

\* exit n
StepExit ==
    /\ proc = "running" /\ todo # <<>> /\ Head(todo).op = "exit"
    /\ status' = Head(todo).arg[1]
    /\ proc' = "exited"
    /\ trace' = Append(trace, Head(todo))
    /\ UNCHANGED <<todo, errexit, shvars>>
    /\ UNCHANGED <<pc, callId, inputVars, frameVars, runs, fsVars, auditLog,
                   callerGot, tracking, sideVars>>

\* what a successful statement s leaves in the shell's variables
Assigned(s) ==
    CASE s.op = "assign" -> { [shvars EXCEPT ![s.arg[1]] = s.arg[2]] }
      [] s.op = "assign ls -t | head -1" ->
            { [shvars EXCEPT ![s.arg[1]] = LsNewest(s.arg[2])] }
      [] s.op = "assign fly releases | jq" ->
            \* fly prints the list and jq reads it, or fly fails, prints
            \* nothing and jq prints nothing
            { [shvars EXCEPT ![s.arg[1]] = JqSecondVersion(releases)],
              [shvars EXCEPT ![s.arg[1]] = <<>>] }
      [] OTHER -> { shvars }

\* a simple command, under the shell's -e flag
StepCmd ==
    /\ proc = "running" /\ todo # <<>> /\ Head(todo).op \notin {"if", "exit"}
    /\ LET s == Head(todo) IN
       \E st \in Statuses(s) :
          /\ status' = st
          /\ trace' = Append(trace, s)
          /\ errexit' = (errexit \/ s.op = "set -e")
          /\ shvars' \in Assigned(s)
          /\ IF s.op = "mkdir -p" /\ st = 0
             THEN LET dir == shvars[s.arg[1]] IN
                  /\ rootDirs' = rootDirs \cup {dir[1]}
                  /\ backups' = IF dir[2] \in Range(backups) THEN backups
                                ELSE <<dir[2]>> \o backups
             ELSE UNCHANGED <<backups, rootDirs>>
          /\ IF st # 0 /\ errexit
             THEN proc' = "exited" /\ UNCHANGED todo
             ELSE todo' = Tail(todo) /\ UNCHANGED proc
    /\ UNCHANGED <<tmpFiles, releases>>
    /\ UNCHANGED <<pc, callId, inputVars, frameVars, runs, auditLog,
                   callerGot, tracking, sideVars>>

\* the end of the script: the exit status is the last statement's
StepEnd ==
    /\ proc = "running" /\ todo = <<>>
    /\ proc' = "exited"
    /\ UNCHANGED <<todo, errexit, shvars, status, trace>>
    /\ UNCHANGED <<pc, callId, inputVars, frameVars, runs, fsVars, auditLog,
                   callerGot, tracking, sideVars>>

\* ------------------------------------------------------------ _run_script

\* an exception leaves the call: deploy's try block turns it into an error
\* record, everywhere else it reaches the caller
Raised ==
    IF handler = "deploy"
    THEN /\ pc' = "return"
         /\ result' = [status |-> "error", deployment_id |-> deployment_id,
                       error |-> <<"str(e)">>,
                       output |-> << <<"Deployment failed: ", "str(e)">> >>]
         /\ UNCHANGED callerGot
    ELSE /\ pc' = "idle"
         /\ callerGot' = [callerGot EXCEPT
                              ![callId] = [kind |-> "raised", status |-> "none"]]
         /\ UNCHANGED result

\* open(script_file, "w"); f.write(script)
RsWrite ==
    /\ pc = "rs_write"
    /\ runs' = runs + 1
    /\ \/ /\ tmpFiles' = tmpFiles \cup {runs + 1}
          /\ pc' = "rs_chmod"
          /\ UNCHANGED <<result, callerGot>>
       \/ /\ Raised
          /\ UNCHANGED tmpFiles
    /\ UNCHANGED <<callId, inputVars, handler, active, activeCmd, invoked,
                   script, runResult, saved, deployment_id, started, procVars,
                   backups, rootDirs, releases, auditLog, tracking, sideVars>>

\* os.chmod(script_file, 0o755)
RsChmod ==
    /\ pc = "rs_chmod"
    /\ \/ pc' = "rs_spawn" /\ UNCHANGED <<result, callerGot>>
       \/ Raised
    /\ UNCHANGED <<callId, inputVars, handler, active, activeCmd, invoked,
                   script, runResult, saved, deployment_id, started, procVars,
                   runs,
                   fsVars, auditLog, tracking, sideVars>>

\* asyncio.create_subprocess_shell(script_file, ...)
RsSpawn ==
    /\ pc = "rs_spawn"
    /\ \/ /\ pc' = "rs_wait"
          /\ proc' = "running" /\ todo' = script /\ errexit' = FALSE
          /\ shvars' = NoShVars /\ status' = 0 /\ trace' = <<>>
          /\ UNCHANGED <<result, callerGot>>
       \/ /\ Raised
          /\ UNCHANGED procVars
    /\ UNCHANGED <<callId, inputVars, handler, active, activeCmd, invoked,
                   script, runResult, saved, deployment_id, started, runs,
                   fsVars,
                   auditLog, tracking, sideVars>>

\* sensitivity variant of RsCommunicate: the wait gives up on the child
RsCommunicateTimeout ==
    /\ pc = "rs_wait"
    /\ pc' = "rs_remove"
    /\ UNCHANGED <<callId, inputVars, frameVars, procVars, runs, fsVars,
                   auditLog, callerGot, tracking, sideVars>>

\* await process.communicate(): returns once the child has exited
RsCommunicate ==
    /\ pc = "rs_wait" /\ proc = "exited"
    /\ pc' = "rs_remove"
    /\ UNCHANGED <<callId, inputVars, frameVars, procVars, runs, fsVars,
                   auditLog, callerGot, tracking, sideVars>>

\* os.remove(script_file)
RsRemove ==
    /\ pc = "rs_remove"
    /\ tmpFiles' = tmpFiles \ {runs}
    /\ pc' = "rs_return"
    /\ UNCHANGED <<callId, inputVars, frameVars, procVars, runs, backups,
                   rootDirs, releases, auditLog, callerGot, tracking, sideVars>>

\* standard error: what the failing statement wrote
Stderr(tr, st) == IF st # 0 /\ tr # <<>> THEN <<tr[Len(tr)].arg>> ELSE <<>>

\* return {"returncode": ..., "output": stdout.decode(), "error": ...}
RsReturn ==
    /\ pc = "rs_return"
    /\ \/ /\ runResult' = [returncode |-> status, output |-> Stdout(trace),
                           error |-> Stderr(trace, status)]
          /\ pc' = "after_run"
          /\ UNCHANGED <<result, callerGot>>
       \/ /\ Raised
          /\ UNCHANGED runResult
    /\ UNCHANGED <<callId, inputVars, handler, active, activeCmd, invoked,
                   script, saved, deployment_id, started, procVars, runs,
                   fsVars,
                   auditLog, tracking, sideVars>>


\* ----------------------------------------------------------- CommandAgent

\* "git add -A && git commit -m 'Auto-format code'"
CommitCommand ==
    << "git", " ", "add", " ", "-A", " ", "&&", " ", "git", " ", "commit",
       " ", "-m", " ", "'Auto-format", " ", "code'" >>

\* the "status" a handler puts in its outcome
StatusOf(h, returncode) ==
    IF h = "_analyze_code" THEN "success"
    ELSE IF returncode = 0 THEN "success" ELSE "failed"

\* the handler's return value
Outcome(h, rr) == [status |-> StatusOf(h, rr.returncode), output |-> rr.output]

\* the length output_preview is cut to
preview_limit == 500

\* s[:n]
Prefix(s, n) == SubSeq(s, 1, IF Len(s) < n THEN Len(s) ELSE n)

\* sensitivity variant of OutputPreview: the whole output
OutputPreviewWhole(res) ==
    IF res.output # <<>> THEN [some |-> TRUE, text |-> res.output]
    ELSE [some |-> FALSE, text |-> <<>>]

\* result.get("output", "")[:500] if result.get("output") else None
OutputPreview(res) ==
    IF res.output # <<>>
    THEN [some |-> TRUE, text |-> Prefix(res.output, preview_limit)]
    ELSE [some |-> FALSE, text |-> <<>>]

\* the line _log_command writes
LogEntry(cmd, svc, res) ==
    [command |-> cmd, service |-> svc, status |-> res.status, user |-> "ceo",
     output_preview |-> OutputPreview(res)]

\* a request reaches CommandAgent.execute
Execute ==
    /\ pc = "idle" /\ callId < MaxCalls
    /\ \E c \in Commands, s \in Services, a \in ArgValues :
          command' = c /\ service' = s /\ args' = a
    /\ callId' = callId + 1
    /\ pc' = "parse"
    /\ handler' = "" /\ active' = "" /\ activeCmd' = <<>>
    /\ invoked' = <<>> /\ script' = <<>>
    /\ runResult' = NoRun /\ saved' = NoRun /\ result' = NoResult
    /\ proc' = "none" /\ todo' = <<>> /\ errexit' = FALSE
    /\ shvars' = NoShVars /\ status' = 0 /\ trace' = <<>>
    /\ UNCHANGED <<target, version, rollback, deployment_id, started, runs,
                   fsVars,
                   auditLog, callerGot, tracking, sideVars>>

\* cmd_type = command.split()[0] if command else "custom"
\* handler = self.allowed_commands.get(cmd_type, self._custom_command)
SelectStep ==
    /\ pc = "parse"
    /\ IF CmdTypeRaises(command)
       THEN /\ Raised
            /\ UNCHANGED <<handler, active, activeCmd>>
       ELSE /\ handler' = SelectHandler(CmdType(command))
            /\ active' = handler'
            /\ activeCmd' = command
            /\ pc' = "handler"
            /\ UNCHANGED <<result, callerGot>>
    /\ UNCHANGED <<callId, inputVars, invoked, script, runResult, saved,
                   deployment_id, started, procVars, runs, fsVars, auditLog,
                   tracking, sideVars>>

\* a handler is entered and renders its script
EnterHandler ==
    /\ pc = "handler"
    /\ invoked' = Append(invoked, <<active, activeCmd>>)
    /\ \E ts \in (IF active = "_backup_data" THEN Timestamps ELSE {"-"}) :
          script' = RenderScript(active, activeCmd, service,
                                 IF active = handler THEN OrEmpty(args)
                                 ELSE EmptyDict, ts)
    /\ pc' = "rs_write"
    /\ UNCHANGED <<callId, inputVars, handler, active, activeCmd, runResult,
                   saved, result, deployment_id, started, procVars, runs,
                   fsVars,
                   auditLog, callerGot, tracking, sideVars>>

\* sensitivity variant of CommitsAfter: the commit step whatever the exit code
CommitsAlways(rr) == TRUE

\* if result.get("returncode") == 0: the commit step follows
CommitsAfter(rr) == rr.returncode = 0

IsCommandHandler(h) == h \notin {"", "deploy", "_rollback"}

\* _format_code after a script that exited 0: the commit step
FormatCommit ==
    /\ pc = "after_run"
    /\ active = "_format_code" /\ CommitsAfter(runResult)
    /\ saved' = runResult
    /\ active' = "_git_operation"
    /\ activeCmd' = CommitCommand
    /\ pc' = "handler"
    /\ UNCHANGED <<callId, inputVars, handler, invoked, script, runResult,
                   result, deployment_id, started, procVars, runs, fsVars,
                   auditLog,
                   callerGot, tracking, sideVars>>

\* the handler returns its outcome to execute
HandlerReturn ==
    /\ pc = "after_run" /\ IsCommandHandler(handler)
    /\ \/ /\ active = handler
          /\ ~(active = "_format_code" /\ CommitsAfter(runResult))
          /\ result' = Outcome(handler, runResult)
       \/ \* the commit step's own outcome is dropped
          /\ active # handler
          /\ result' = Outcome(handler, saved)
    /\ pc' = "audit"
    /\ UNCHANGED <<callId, inputVars, handler, active, activeCmd, invoked,
                   script, runResult, saved, deployment_id, started, procVars,
                   runs,
                   fsVars, auditLog, callerGot, tracking, sideVars>>

\* sensitivity variant of LogCommand: execute goes on to its return while the
\* record is still to be written
LogCommandDeferred ==
    /\ pc = "audit"
    /\ pc' = "return"
    /\ UNCHANGED <<callId, inputVars, frameVars, procVars, runs, fsVars,
                   auditLog, callerGot, tracking, sideVars>>

\* await self._log_command(command, service, result)
LogCommand ==
    /\ pc = "audit"
    /\ \/ /\ auditLog' = Append(auditLog,
                                [call |-> callId,
                                 entry |-> LogEntry(command, service, result)])
          /\ pc' = "return"
          /\ UNCHANGED <<result, callerGot>>
       \/ \* os.makedirs or open fails
          /\ Raised
          /\ UNCHANGED auditLog
    /\ UNCHANGED <<callId, inputVars, handler, active, activeCmd, invoked,
                   script, runResult, saved, deployment_id, started, procVars,
                   runs,
                   fsVars, tracking, sideVars>>

\* return result
Return ==
    /\ pc = "return"
    /\ callerGot' = [callerGot EXCEPT
                        ![callId] = [kind |-> "returned", status |-> result.status]]
    /\ pc' = "idle"
    /\ UNCHANGED <<callId, inputVars, frameVars, procVars, runs, fsVars,
                   auditLog, tracking, sideVars>>

Process == StepIf \/ StepExit \/ StepCmd \/ StepEnd

RunScript == RsWrite \/ RsChmod \/ RsSpawn \/ RsCommunicate \/ RsRemove \/ RsReturn

Next ==
    \/ Execute \/ SelectStep \/ EnterHandler
    \/ RunScript \/ Process
    \/ FormatCommit \/ HandlerReturn \/ LogCommand \/ Return

Spec == Init /\ [][Next]_vars

\* the steps the event loop takes on behalf of a call of execute: each is
\* taken once it can be; the caller and the child process owe nothing
Engine ==
    \/ SelectStep \/ EnterHandler
    \/ RunScript
    \/ FormatCommit \/ HandlerReturn \/ LogCommand \/ Return

\* one call of execute, followed to its end
FirstCall == callId = 0 /\ Execute

NextLive == FirstCall \/ Engine \/ Process

SpecLive == Init /\ [][NextLive]_vars /\ WF_vars(Engine)

\* ------------------------------------------- the audit record, by itself
\*
\* execute from the return of the handler on, for outcomes whose output is
\* text of any length, character by character.

\* a text of n characters
TextOf(n) == [i \in 1..n |-> Digits[(i % 10) + 1]]

AuditOutputs == { TextOf(n) : n \in {0, 1, 499, 500, 501, 600} }

InitAudit ==
    /\ InitSide
    /\ InitAgents
    /\ backups = <<>> /\ rootDirs = {} /\ releases = <<>>

\* a handler has returned its outcome to the one execute call looked at
HandlerReturned ==
    /\ pc = "idle" /\ callId = 0
    /\ \E c \in Commands, s \in Services,
          st \in {"success", "failed"}, out \in AuditOutputs :
          /\ ~CmdTypeRaises(c)
          /\ command' = c /\ service' = s /\ args' = None
          /\ handler' = SelectHandler(CmdType(c))
          /\ result' = [status |-> st, output |-> out]
    /\ callId' = callId + 1
    /\ active' = handler'
    /\ pc' = "audit"
    /\ UNCHANGED <<target, version, rollback, activeCmd, invoked, script,
                   runResult, saved, deployment_id, started, procVars, runs,
                   fsVars, auditLog, callerGot, tracking, sideVars>>

NextAudit == HandlerReturned \/ LogCommand \/ Return

SpecAudit == InitAudit /\ [][NextAudit]_vars


\* -------------------------------------------------------- DeploymentAgent

Targets == { "staging", "production" }
VersionArgs == { "latest", "v1.2.0" }
\* datetime.utcnow().strftime('%Y%m%d%H%M%S') at the start of a deploy
\* readings of datetime.utcnow(): <<year, month, day, hour, minute, second>>
DeployTimes == { <<2024, 1, 9, 23, 59, 59>>, <<2024, 1, 10, 0, 0, 0>> }

\* %0wd: n in w decimal digits, zero-padded on the left
RECURSIVE Pad(_, _)
Pad(n, w) == IF w = 0 THEN <<>>
             ELSE Pad(n \div 10, w - 1) \o <<Digits[(n % 10) + 1]>>

\* sensitivity variant of strftime: the format stops at the minute
strftime_to_minute(t) == Pad(t[1], 4) \o Pad(t[2], 2) \o Pad(t[3], 2)
                         \o Pad(t[4], 2) \o Pad(t[5], 2)

\* strftime('%Y%m%d%H%M%S')
strftime(t) == Pad(t[1], 4) \o Pad(t[2], 2) \o Pad(t[3], 2)
               \o Pad(t[4], 2) \o Pad(t[5], 2) \o Pad(t[6], 2)

DeployTimestamps == { strftime(t) : t \in DeployTimes }

\* f"deploy-{service}-{datetime.utcnow().strftime('%Y%m%d%H%M%S')}", the
\* service given as the pieces of its name
deployment_id_of(svc, t) == <<"deploy-">> \o svc \o <<"-">> \o strftime(t)

\* version numbers the platform hands out, oldest first
VersionNames == << "1", "2", "3", "4", "5" >>

\* a history of n releases, newest first
History(n) == [i \in 1..n |-> VersionNames[n - i + 1]]

\* the release histories the platform may hold
ReleaseHistories == { History(n) : n \in 0..MaxReleases }

fly_token == "$FLY_API_TOKEN"

\* sensitivity variant of deploy_script: the image is built before the change
\* into the repository
deploy_script_late_cd(dep_id, tgt, svc, ver) ==
    << SetE,
       Echo(<<"Starting deployment ">> \o dep_id),
       Echo(<<"Building Docker image...">>),
       Run(<<"docker build -t sophia-", svc, ":", ver, " -f docker/", svc,
             ".Dockerfile .">>),
       Cd(sophia_repo),
       Echo(<<"Deployment ">> \o dep_id \o <<" complete!">>) >>

deploy_script(dep_id, tgt, svc, ver) ==
    << SetE,
       Echo(<<"Starting deployment ">> \o dep_id),
       Cd(sophia_repo),
       Echo(<<"Building Docker image...">>),
       Run(<<"docker build -t sophia-", svc, ":", ver, " -f docker/", svc,
             ".Dockerfile .">>),
       Echo(<<"Tagging for Fly.io...">>),
       Run(<<"docker tag sophia-", svc, ":", ver, " registry.fly.io/sophia-",
             svc, ":", ver>>),
       Echo(<<"Authenticating with Fly.io...">>),
       Run(<<"fly auth token ", fly_token>>),
       Echo(<<"Pushing to registry...">>),
       Run(<<"fly deploy --app sophia-", svc, "-", tgt,
             " --image registry.fly.io/sophia-", svc, ":", ver,
             " --strategy rolling --wait-timeout 300">>),
       Echo(<<"Checking deployment health...">>),
       Run(<<"fly status --app sophia-", svc, "-", tgt>>),
       Echo(<<"Deployment ">> \o dep_id \o <<" complete!">>) >>

\* sensitivity variant of rollback_script: the image is built anew before the
\* earlier release is deployed
rollback_script_rebuild(svc) ==
    << SetE,
       Echo(<<"Starting rollback for ", svc>>),
       Cd(sophia_repo),
       Run(<<"docker build -t sophia-", svc, ":", "latest", " -f docker/", svc,
             ".Dockerfile .">>),
       Cmd("assign fly releases | jq", <<"PREV_RELEASE", svc>>),
       Run(<<"fly deploy --app sophia-", svc, " --image-label v$PREV_RELEASE">>) >>

rollback_script(svc) ==
    << SetE,
       Echo(<<"Starting rollback for ", svc>>),
       Cd(sophia_repo),
       Cmd("assign fly releases | jq", <<"PREV_RELEASE", svc>>),
       If(IsEmpty("PREV_RELEASE"),
          << Echo(<<"No previous release found">>), Cmd("exit", <<1>>) >>, <<>>),
       Echo(<<"Rolling back to version $PREV_RELEASE">>),
       Run(<<"fly deploy --app sophia-", svc, " --image-label v$PREV_RELEASE">>),
       Echo(<<"Rollback complete!">>),
       Run(<<"fly status --app sophia-", svc>>) >>

\* a request reaches DeploymentAgent.deploy
Deploy ==
    /\ pc = "idle" /\ callId < MaxCalls
    /\ \E t \in Targets, s \in Services, v \in VersionArgs, r \in BOOLEAN :
          target' = t /\ service' = s /\ version' = v /\ rollback' = r
    /\ callId' = callId + 1
    /\ pc' = "deploy"
    /\ handler' = "" /\ active' = "" /\ activeCmd' = <<>>
    /\ invoked' = <<>> /\ script' = <<>>
    /\ runResult' = NoRun /\ saved' = NoRun /\ result' = NoResult
    /\ deployment_id' = <<>> /\ started' = NoTime
    /\ proc' = "none" /\ todo' = <<>> /\ errexit' = FALSE
    /\ shvars' = NoShVars /\ status' = 0 /\ trace' = <<>>
    /\ UNCHANGED <<command, args, runs, fsVars, auditLog, callerGot, tracking, sideVars>>

\* if rollback: return await self._rollback(service); else the id and the
\* deployment script
DeployEntry ==
    /\ pc = "deploy"
    /\ IF rollback
       THEN /\ handler' = "_rollback"
            /\ script' = rollback_script(service)
            /\ UNCHANGED <<deployment_id, started>>
       ELSE /\ handler' = "deploy"
            /\ \E t \in DeployTimes :
                  /\ started' = t
                  /\ deployment_id' = deployment_id_of(<<service>>, t)
            /\ script' = deploy_script(deployment_id', target, service, version)
    /\ active' = handler'
    /\ invoked' = Append(invoked, <<handler', <<>>>>)
    /\ pc' = "rs_write"
    /\ UNCHANGED <<callId, inputVars, activeCmd, runResult, saved, result,
                   procVars, runs, fsVars, auditLog, callerGot, tracking, sideVars>>

\* the "status" _rollback puts in its record
RollbackStatus(returncode) == IF returncode = 0 THEN "success" ELSE "error"

\* _rollback returns its record
RollbackReturn ==
    /\ pc = "after_run" /\ handler = "_rollback"
    /\ result' = [status |-> RollbackStatus(runResult.returncode),
                  output |-> runResult.output]
    /\ pc' = "return"
    /\ UNCHANGED <<callId, inputVars, handler, active, activeCmd, invoked,
                   script, runResult, saved, deployment_id, started, procVars,
                   runs,
                   fsVars, auditLog, callerGot, tracking, sideVars>>

\* deploy goes on to _log_deployment_to_github whatever the script returned
DeployLog ==
    /\ pc = "after_run" /\ handler = "deploy"
    /\ pc' = "track_create"
    /\ UNCHANGED <<callId, inputVars, frameVars, procVars, runs, fsVars,
                   auditLog, callerGot, tracking, sideVars>>

\* client.post(.../deployments): answered 201, answered otherwise, or raises
\* (before or after the request left)
TrackCreate ==
    /\ pc = "track_create"
    /\ \/ /\ tracking' = Append(tracking, [call |-> callId,
                                           kind |-> "create-deployment"])
          /\ \/ pc' = "track_status" /\ UNCHANGED <<result, callerGot>>
             \/ pc' = "deployed" /\ UNCHANGED <<result, callerGot>>
             \/ Raised
       \/ /\ Raised
          /\ UNCHANGED tracking
    /\ UNCHANGED <<callId, inputVars, handler, active, activeCmd, invoked,
                   script, runResult, saved, deployment_id, started, procVars,
                   runs, fsVars, auditLog, sideVars>>

\* client.post(.../deployments/{id}/statuses), after a 201
TrackStatus ==
    /\ pc = "track_status"
    /\ \/ /\ tracking' = Append(tracking, [call |-> callId,
                                           kind |-> "create-deployment-status"])
          /\ \/ pc' = "deployed" /\ UNCHANGED <<result, callerGot>>
             \/ Raised
       \/ /\ Raised
          /\ UNCHANGED tracking
    /\ UNCHANGED <<callId, inputVars, handler, active, activeCmd, invoked,
                   script, runResult, saved, deployment_id, started, procVars,
                   runs, fsVars, auditLog, sideVars>>

\* the "status" deploy puts in its record on the main path
DeployStatus(returncode) == "success"

\* f"https://sophia-{service}-{target}.fly.dev"
Url(svc, tgt) == <<"https://sophia-", svc, "-", tgt, ".fly.dev">>

\* return {"status": "success", "deployment_id": ..., "url": ..., ...}; the
\* record's "logs", the lines of the script's output, are its output here
DeployReturn ==
    /\ pc = "deployed"
    /\ result' = [status |-> DeployStatus(runResult.returncode),
                  deployment_id |-> deployment_id,
                  url |-> Url(service, target),
                  output |-> runResult.output,
                  version |-> version,
                  target |-> target]
    /\ pc' = "return"
    /\ UNCHANGED <<callId, inputVars, handler, active, activeCmd, invoked,
                   script, runResult, saved, deployment_id, started, procVars,
                   runs,
                   fsVars, auditLog, callerGot, tracking, sideVars>>

InitDeploy ==
    /\ InitSide
    /\ InitAgents
    /\ backups = <<>>
    /\ rootDirs = {}
    /\ releases \in ReleaseHistories

NextDeploy ==
    \/ Deploy \/ DeployEntry
    \/ RunScript \/ Process
    \/ RollbackReturn \/ DeployLog \/ TrackCreate \/ TrackStatus
    \/ DeployReturn \/ Return

SpecDeploy == InitDeploy /\ [][NextDeploy]_vars


\* ------------------------------------------------- the scripts, as rendered

ScaleCounts == { "1", "3" }
AppNames == { "sophia-api", "sophia-web" }
Regions == { "sjc", "iad" }

\* scale(service, count)
scale_script(svc, count) ==
    << SetE,
       Echo(<<"Scaling ", svc, " to ", count, " instances">>),
       Run(<<"fly scale count ", count, " --app sophia-", svc>>),
       Echo(<<"Scale operation complete!">>),
       Run(<<"fly status --app sophia-", svc>>) >>

\* provision_infrastructure(config)
provision_script(app_name, region) ==
    << SetE,
       Echo(<<"Provisioning infrastructure for ", app_name>>),
       Run(<<"fly apps create ", app_name, " --org payready">>),
       Run(<<"fly ips allocate-v4 --shared --app ", app_name>>),
       Run(<<"fly volumes create data --app ", app_name, " --region ", region,
             " --size 10">>),
       Run(<<"fly secrets set DATABASE_URL=... REDIS_URL=... --app ",
             app_name>>),
       Echo(<<"Infrastructure provisioned!">>) >>

\* the functions that hand a script to _run_script on behalf of a command
CommandHandlers ==
    { HandlerOf(k) : k \in allowed_commands } \cup {"_custom_command"}

\* what a rendering leaves alone
RenderFrame ==
    UNCHANGED <<pc, callId, rollback, active, activeCmd, invoked, runResult,
                saved, result, deployment_id, started, procVars, runs, fsVars,
                auditLog, callerGot, tracking, sideVars>>

\* the script a handler of CommandAgent renders for a command
RenderCommand ==
    /\ \E c \in Commands, s \in Services, a \in ArgValues :
          /\ ~CmdTypeRaises(c)
          /\ command' = c /\ service' = s /\ args' = a
          /\ handler' = SelectHandler(CmdType(c))
          /\ \E ts \in Timestamps :
                script' = RenderScript(handler', c, s, OrEmpty(a), ts)
    /\ UNCHANGED <<target, version>>
    /\ RenderFrame

\* the commit step _format_code hands to _git_operation
RenderCommit ==
    /\ \E s \in Services :
          /\ service' = s
          /\ handler' = "_git_operation"
          /\ script' = RenderScript(handler', CommitCommand, s, EmptyDict, "-")
    /\ command' = <<"format">> /\ args' = None
    /\ UNCHANGED <<target, version>>
    /\ RenderFrame

\* the script deploy renders on its main path
RenderDeploy ==
    /\ \E t \in Targets, s \in Services, v \in VersionArgs, u \in DeployTimes :
          /\ target' = t /\ service' = s /\ version' = v
          /\ handler' = "deploy"
          /\ script' = deploy_script(<<"deploy-", s, "-">> \o strftime(u),
                                     t, s, v)
    /\ UNCHANGED <<command, args>>
    /\ RenderFrame

\* the script _rollback renders
RenderRollback ==
    /\ \E s \in Services :
          /\ service' = s
          /\ handler' = "_rollback"
          /\ script' = rollback_script(s)
    /\ UNCHANGED <<command, args, target, version>>
    /\ RenderFrame

\* the script scale renders
RenderScale ==
    /\ \E s \in Services, n \in ScaleCounts :
          /\ service' = s
          /\ handler' = "scale"
          /\ script' = scale_script(s, n)
    /\ UNCHANGED <<command, args, target, version>>
    /\ RenderFrame

\* the script provision_infrastructure renders
RenderProvision ==
    /\ \E n \in AppNames, g \in Regions :
          /\ handler' = "provision_infrastructure"
          /\ script' = provision_script(n, g)
    /\ UNCHANGED <<command, service, args, target, version>>
    /\ RenderFrame

InitRender ==
    /\ InitSide
    /\ InitAgents
    /\ backups = <<>> /\ rootDirs = {} /\ releases = <<>>

NextRender ==
    \/ RenderCommand \/ RenderCommit
    \/ RenderDeploy \/ RenderRollback \/ RenderScale \/ RenderProvision

SpecRender == InitRender /\ [][NextRender]_vars


\* ---------------------------------------------------- _parse_test_results

\* a line of output is a sequence of tokens: a run of digits, a run of
\* whitespace, or any other run of characters
Num(n)  == [kind |-> "digits", n |-> n, w |-> ""]
Word(w) == [kind |-> "word", n |-> 0, w |-> w]
Sp      == [kind |-> "space", n |-> 0, w |-> ""]

TestLines ==
    { <<>>,
      << Num(3), Sp, Word("passed") >>,
      << Num(1), Sp, Word("failed") >>,
      << Num(2), Sp, Word("skipped") >>,
      << Num(3), Sp, Word("passed"), Word(","), Sp, Num(1), Sp, Word("failed"),
         Word(","), Sp, Num(2), Sp, Word("skipped") >>,
      << Word("tests/test_a.py::test_x"), Sp, Word("PASSED") >>,
      << Num(5), Sp, Sp, Word("PASSED") >>,
      << Word("collected"), Sp, Num(4), Sp, Word("items") >> }

\* output.split("\n"): the outputs of at most MaxLines lines
TestOutputs ==
    UNION { [1..n -> TestLines] : n \in 0..MaxLines }

\* str.lower()
Lower(w) == CASE w = "PASSED"  -> "passed"
              [] w = "FAILED"  -> "failed"
              [] w = "SKIPPED" -> "skipped"
              [] OTHER         -> w

\* "passed" in line.lower()
InLine(line, w) ==
    \E i \in DOMAIN line : line[i].kind = "word" /\ Lower(line[i].w) = w

\* the first position at or after i that holds no whitespace
RECURSIVE SkipSpaces(_, _)
SkipSpaces(line, i) ==
    IF i <= Len(line) /\ line[i].kind = "space"
    THEN SkipSpaces(line, i + 1) ELSE i

\* r"(\d+)\s+passed" matches with its digits at position i
MatchAt(line, i, w) ==
    /\ line[i].kind = "digits"
    /\ i + 1 <= Len(line) /\ line[i + 1].kind = "space"
    /\ LET j == SkipSpaces(line, i + 1)
       IN  j <= Len(line) /\ line[j].kind = "word" /\ Lower(line[j].w) = w

\* re.search: the positions of the matches; the leftmost is the match
Matches(line, w) == { i \in DOMAIN line : MatchAt(line, i, w) }
Leftmost(S) == CHOOSE i \in S : \A j \in S : i <= j

\* the loop body for one line: only "passed" is looked for
ParseLine(results, line) ==
    IF InLine(line, "passed") /\ Matches(line, "passed") # {}
    THEN [results EXCEPT
            !.passed = line[Leftmost(Matches(line, "passed"))].n]
    ELSE results

RECURSIVE ParseLines(_, _)
ParseLines(results, lines) ==
    IF lines = <<>> THEN results
    ELSE ParseLines(ParseLine(results, Head(lines)), Tail(lines))

parse_test_results(output) ==
    ParseLines([passed |-> 0, failed |-> 0, skipped |-> 0], output)

\* _parse_test_results has not returned
NotParsed == <<>>

ParseTestResults ==
    /\ test_results = NotParsed
    /\ test_results' = parse_test_results(testOutput)
    /\ UNCHANGED <<agentVars, inv, clock, scratch, logFile, testOutput,
                   webVars>>

InitParse ==
    /\ InitNoCalls /\ InitNoWeb
    /\ InitAgents
    /\ backups = <<>> /\ rootDirs = {} /\ releases = <<>>
    /\ testOutput \in TestOutputs
    /\ test_results = NotParsed

NextParse == ParseTestResults

SpecParse == InitParse /\ [][NextParse]_vars


\* ------------------------------------------ execute calls in flight together
\*
\* The engine runs its calls as coroutines of one event loop: a call runs
\* alone until it awaits something that is not ready.  Between the entry of
\* execute and the end of _log_command those points are the spawn of the
\* child (create_subprocess_shell) and the wait for its exit (communicate).
\* The child's own steps are those of Process above; here it is its exit code.

Invocations == 1..MaxInFlight
ConcCommands == { <<"lint">>, <<"git", " ", "status">> }

\* what datetime.utcnow().timestamp() returns, one after the other
ClockReadings == { 0, 1 }

\* f"/tmp/cmd_{datetime.utcnow().timestamp()}.sh"
ScriptFile(now) == <<"/tmp/cmd_", now, ".sh">>

\* the frame of a call: ran is the invocation whose script its child ran (-1:
\* the shell found no file), began the length of the log when it was entered
NoFrame == [pc |-> "idle", command |-> <<>>, path |-> <<>>, ran |-> 0,
            status |-> "none", pending |-> <<>>, got |-> "pending",
            began |-> 0]

\* the script the file at path p holds is that of invocation owner
FileAt(p) == { f \in scratch : f.path = p }

\* json.dumps(log_entry)
json_dumps(entry) ==
    <<"{\"command\": ">> \o entry.command \o
    <<", \"service\": ", entry.service, ", \"status\": ", entry.status,
      ", \"user\": ", entry.user, ", \"output_preview\": ",
      IF entry.output_preview.some THEN "\"...\"" ELSE "null", "}">>

\* the text _log_command writes for an invocation's frame
LogLine(fr) ==
    json_dumps(LogEntry(fr.command, "api",
                        [status |-> fr.status, output |-> <<>>])) \o <<"\n">>

\* sensitivity variant of LogWrites: the record and its newline are written
\* in two turns of the event loop
LogWritesPiecewise(line) ==
    << SubSeq(line, 1, Len(line) - 1), SubSeq(line, Len(line), Len(line)) >>

\* f.write(json.dumps(log_entry) + "\n"): the pieces the line reaches the
\* file in, other calls running between one piece and the next
LogWrites(line) == << line >>

\* the characters of text, as written by invocation i
WrittenBy(i, text) == [k \in DOMAIN text |-> [by |-> i, ch |-> text[k]]]

\* what an action of invocation i leaves alone
ConcFrame == UNCHANGED <<agentVars, testOutput, test_results, webVars>>

\* execute is entered, the handler renders its script and _run_script names
\* the scratch file after the clock, writes it and makes it executable
ExecuteStart(i) ==
    /\ inv[i].pc = "idle"
    /\ \E c \in ConcCommands :
          inv' = [inv EXCEPT ![i] = [NoFrame EXCEPT !.pc = "spawn",
                                                     !.command = c,
                                                     !.path = ScriptFile(clock),
                                                     !.began = Len(logFile)]]
    /\ scratch' = (scratch \ FileAt(ScriptFile(clock)))
                     \cup {[path |-> ScriptFile(clock), owner |-> i]}
    /\ UNCHANGED <<clock, logFile>>
    /\ ConcFrame

\* create_subprocess_shell returns: the shell runs what the file holds now,
\* or finds no file
SpawnReturns(i) ==
    /\ inv[i].pc = "spawn"
    /\ inv' = [inv EXCEPT ![i].pc = "wait",
                          ![i].ran = IF FileAt(inv[i].path) = {} THEN -1
                                     ELSE (CHOOSE f \in FileAt(inv[i].path) :
                                              TRUE).owner]
    /\ UNCHANGED <<clock, scratch, logFile>>
    /\ ConcFrame

\* communicate returns; os.remove(script_file), which raises when the file is
\* gone; the handler builds its outcome and _log_command its line
CommunicateReturns(i) ==
    /\ inv[i].pc = "wait"
    /\ IF FileAt(inv[i].path) = {}
       THEN /\ inv' = [inv EXCEPT ![i].pc = "done", ![i].got = "raised"]
            /\ UNCHANGED scratch
       ELSE /\ \E st \in (IF inv[i].ran = -1 THEN {"failed"}
                           ELSE {"success", "failed"}) :
                  inv' = [inv EXCEPT
                            ![i].pc = "log",
                            ![i].status = st,
                            ![i].pending =
                                LogWrites(LogLine([inv[i] EXCEPT !.status = st]))]
            /\ scratch' = scratch \ FileAt(inv[i].path)
    /\ UNCHANGED <<clock, logFile>>
    /\ ConcFrame

\* with open(log_file, "a") as f: f.write(...); then execute returns
LogWrite(i) ==
    /\ inv[i].pc = "log"
    /\ logFile' = logFile \o WrittenBy(i, Head(inv[i].pending))
    /\ inv' = [inv EXCEPT
                 ![i].pending = Tail(inv[i].pending),
                 ![i].pc = IF Tail(inv[i].pending) = <<>> THEN "done" ELSE "log",
                 ![i].got = IF Tail(inv[i].pending) = <<>> THEN "returned"
                            ELSE "pending"]
    /\ UNCHANGED <<clock, scratch>>
    /\ ConcFrame

\* the wall clock moves on; nothing makes it do so between two calls
Tick ==
    /\ \E now \in ClockReadings : now > clock /\ clock' = now
    /\ UNCHANGED <<inv, scratch, logFile>>
    /\ ConcFrame

InitConcurrent ==
    /\ InitNoParse /\ InitNoWeb
    /\ InitAgents
    /\ backups = <<>> /\ rootDirs = {} /\ releases = <<>>
    /\ inv = [i \in Invocations |-> NoFrame]
    /\ clock = 0 /\ scratch = {} /\ logFile = <<>>

NextConcurrent ==
    \/ \E i \in Invocations :
          \/ ExecuteStart(i) \/ SpawnReturns(i)
          \/ CommunicateReturns(i) \/ LogWrite(i)
    \/ Tick

SpecConcurrent == InitConcurrent /\ [][NextConcurrent]_vars


\* ================================================================= claims

\* the audit records written for call c
AuditRecordsOf(c) == { i \in DOMAIN auditLog : auditLog[i].call = c }

\* call c has ended: it returned or raised
Ended(c) == callerGot[c].kind # "pending"

\* the statement ran (or was attempted) in the child of the current script
Ran(op, first) ==
    \E i \in DOMAIN trace : trace[i].op = op /\ trace[i].arg[1] = first

\* the _run_script result of the handler execute selected
HandlerRun == IF active # handler THEN saved ELSE runResult

\* C1: every call of execute that has ended, by returning or by raising,
\* has exactly one record in the audit log.
C1_ExactlyOneAuditPerCall ==
    \A c \in 1..MaxCalls : Ended(c) => Cardinality(AuditRecordsOf(c)) = 1

\* C2: whenever a category handler has produced its outcome, the status is
\* "success" exactly when its script exited 0, and "failed" otherwise.
C2_StatusIffExitZero ==
    (IsCommandHandler(handler) /\ result.status # "none") =>
        /\ (result.status = "success") <=> (HandlerRun.returncode = 0)
        /\ (HandlerRun.returncode # 0) => (result.status = "failed")

\* C3: no call of execute ends with an exception at the caller, and every
\* returned outcome has status success, failed or error.
C3_NeverRaises ==
    \A c \in 1..MaxCalls :
        /\ callerGot[c].kind # "raised"
        /\ callerGot[c].kind = "returned" =>
              callerGot[c].status \in {"success", "failed", "error"}

\* the first whitespace-delimited token exists and is no category key
UnknownKey(cmd) ==
    /\ Split(cmd) # <<>>
    /\ ~(\E k \in allowed_commands : Split(cmd)[1] = <<k>>)

\* C4: a command whose first token is no category key is handed to the
\* custom handler (never rejected), and the script rendered for it holds the
\* raw command exactly as supplied.
C4_UnknownFallsThroughVerbatim ==
    (callId >= 1 /\ pc # "parse" /\ UnknownKey(command)) =>
        /\ handler = "_custom_command"
        /\ pc # "handler" =>
              /\ invoked = << <<"_custom_command", command>> >>
              /\ \E i \in DOMAIN script : script[i] = Cmd("raw", command)

\* C4 witness: the child ran the raw text of a command with doubled
\* whitespace and no category key.
C4_Witness ==
    /\ command = <<"ls", " ", " ", "-la">>
    /\ \E i \in DOMAIN trace : trace[i] = Cmd("raw", command)
    /\ pc = "idle" /\ callerGot[callId].kind = "returned"

\* commit steps of the current call
CommitSteps ==
    { i \in DOMAIN invoked : invoked[i] = <<"_git_operation", CommitCommand>> }

\* C5: in a format invocation the commit step is invoked at most once, only
\* after the format script exited 0, and once the format handler has its
\* outcome the step was invoked exactly once if the script exited 0 and not
\* at all otherwise.
C5_CommitOnceAfterSuccess ==
    handler = "_format_code" =>
        /\ Cardinality(CommitSteps) <= 1
        /\ CommitSteps # {} => (saved.returncode = 0 /\ CommitSteps = {2})
        /\ result.status # "none" =>
              Cardinality(CommitSteps) =
                  (IF HandlerRun.returncode = 0 THEN 1 ELSE 0)

\* C5 witness: a format call returned success after one commit step whose
\* script carried the fixed commit command.
C5_Witness ==
    /\ handler = "_format_code" /\ pc = "idle"
    /\ callerGot[callId] = [kind |-> "returned", status |-> "success"]
    /\ Cardinality(CommitSteps) = 1
    /\ \E i \in DOMAIN script : script[i] = Cmd("raw", CommitCommand)

\* the backup_id a restore call works with
BackupId == DictGet(OrEmpty(args), "backup_id", "latest")

\* the restore script's extraction, configuration copy or database replay ran
Extracted ==
    \/ Ran("run", "tar -xzf $BACKUP_DIR/")
    \/ Ran("run", "cp -r $BACKUP_DIR/config/* config/")
    \/ Ran("run", "psql $DATABASE_URL < $BACKUP_DIR/database.sql")

\* C6: a restore whose backup_id names no directory under backups/ never
\* runs the extraction, the configuration copy or the database replay, and
\* the outcome it returns is "failed" after a non-zero exit.
C6_MissingBackupFails ==
    (handler = "_restore_data" /\ BackupId # "latest"
        /\ BackupId \notin Range(backups)) =>
        /\ ~Extracted
        /\ result.status # "none" =>
              (result.status = "failed" /\ runResult.returncode # 0)

\* C6 witness: a restore of a missing backup took the not-found exit and
\* returned failed.
C6_Witness ==
    /\ handler = "_restore_data" /\ BackupId = "zz" /\ backups # <<>>
    /\ Ran("exit", 1)
    /\ pc = "idle"
    /\ callerGot[callId] = [kind |-> "returned", status |-> "failed"]

\* C7: a restore of "latest" with at least two backup directories resolves
\* BACKUP_DIR to the most recently modified directory under backups/ and
\* does not take the not-found exit.
C7_LatestRestoresNewest ==
    (handler = "_restore_data" /\ BackupId = "latest" /\ Len(backups) >= 2) =>
        /\ Ran("assign ls -t | head -1", "BACKUP_DIR") =>
              shvars.BACKUP_DIR = <<"backups", backups[1]>>
        /\ ~Ran("exit", 1)

\* C8: a rollback of a service whose release history has no entry before
\* the current release attempts neither the rollback deployment nor the
\* status query, and the record it returns has status error or failed.
C8_NoPriorReleaseNoRollback ==
    (handler = "_rollback" /\ Len(releases) < 2) =>
        /\ ~Ran("run", "fly deploy --app sophia-")
        /\ ~Ran("run", "fly status --app sophia-")
        /\ result.status # "none" => result.status \in {"error", "failed"}

\* C9: on the main deploy path, once the script has run, the returned
\* status is "success" if the script exited 0 and is not "success" if it
\* exited non-zero.
C9_StatusFromExitCode ==
    (handler = "deploy" /\ pc = "idle" /\ runResult # NoRun
        /\ callerGot[callId].kind = "returned") =>
        (callerGot[callId].status = "success") <=> (runResult.returncode = 0)

\* C10: deployment-tracking calls are made only after a script that exited
\* 0, and a create-deployment-status call always follows a
\* create-deployment call of the same deploy.
C10_TrackingOnlyOnSuccess ==
    \A i \in DOMAIN tracking :
        /\ tracking[i].call = callId => runResult.returncode = 0
        /\ tracking[i].kind = "create-deployment-status" =>
              /\ i > 1
              /\ tracking[i - 1] = [call |-> tracking[i].call,
                                    kind |-> "create-deployment"]

\* the deploy call in hand returned a record after its script exited 0
DeployedOk ==
    /\ callId >= 1 /\ handler = "deploy"
    /\ callerGot[callId].kind = "returned"
    /\ runResult.returncode = 0

\* C11: whatever becomes of the deployment-tracking calls (not sent, raised,
\* answered other than 201), a deploy whose script exited 0 returns status
\* "success" with its deployment_id, url and logs.
C11_TrackingFailureKeepsSuccess ==
    DeployedOk =>
        /\ result.status = "success"
        /\ {"deployment_id", "url", "output"} \subseteq DOMAIN result

\* the value a run of decimal digits denotes
RECURSIVE DigitsValue(_)
DigitsValue(d) ==
    IF d = <<>> THEN 0
    ELSE 10 * DigitsValue(SubSeq(d, 1, Len(d) - 1))
         + (CHOOSE n \in 0..9 : Digits[n + 1] = d[Len(d)])

\* d is the 14-digit YYYYMMDDHHMMSS rendering of the clock reading t
IsTimestampOf(d, t) ==
    /\ Len(d) = 14
    /\ \A i \in 1..14 : d[i] \in Range(Digits)
    /\ DigitsValue(SubSeq(d, 1, 4)) = t[1]
    /\ \A k \in 2..6 : DigitsValue(SubSeq(d, 2 * k + 1, 2 * k + 2)) = t[k]

\* C12: a main-path deploy whose script exited 0 returns the deployment_id
\* "deploy-" + service + "-" + the 14 digits of the UTC time it started at, and
\* the url "https://sophia-" + service + "-" + target + ".fly.dev".
C12_IdAndUrlOfDeploy ==
    DeployedOk =>
        /\ SubSeq(result.deployment_id, 1, 3) = <<"deploy-", service, "-">>
        /\ IsTimestampOf(SubSeq(result.deployment_id, 4,
                                Len(result.deployment_id)), started)
        /\ "url" \in DOMAIN result
        /\ result.url = <<"https://sophia-", service, "-", target, ".fly.dev">>

\* C17: every deploy call, main path or rollback, ends by returning one record
\* whose status is "success" or "error"; no exception reaches the caller.
C17_DeployFinalizedOnce ==
    \A c \in 1..MaxCalls :
        Ended(c) =>
            /\ callerGot[c].kind = "returned"
            /\ callerGot[c].status \in {"success", "error"}

\* no _run_script call is between creating its scratch file and removing it
NoRunInFlight == pc \notin {"rs_chmod", "rs_spawn", "rs_wait", "rs_remove"}

\* C13: once a _run_script call has ended, by returning or by failing at
\* chmod, spawn or output collection, its scratch file no longer exists.
C13_ScratchFileRemoved == NoRunInFlight => tmpFiles = {}

\* the call in hand ended and its handler's script never became a process:
\* the file could not be written or made executable, or the spawn failed
SpawnFailed ==
    /\ callId >= 1 /\ Ended(callId)
    /\ invoked # <<>> /\ proc = "none"

\* C14: when the script file cannot be written or the process cannot be
\* spawned, _run_script returns a result instead of raising: the handler
\* returns an outcome and the audit record is written.
C14_SpawnFailureIsResult ==
    SpawnFailed =>
        /\ callerGot[callId].kind = "returned"
        /\ AuditRecordsOf(callId) # {}

\* the body POST /command answers with
payload(res) == [status |-> DictGet(res, "status", None),
                 output |-> DictGet(res, "output", None),
                 error  |-> DictGet(res, "error", None)]

\* C18: when the script of a command exited non-zero, the outcome of execute
\* and the response of the endpoint have status "failed" and carry the
\* captured stderr text.
C18_FailedCarriesStderr ==
    ( /\ callId >= 1 /\ IsCommandHandler(handler)
      /\ callerGot[callId].kind = "returned"
      /\ HandlerRun.returncode > 0 ) =>
        /\ payload(result).status = "failed"
        /\ payload(result).error # None
        /\ payload(result).error = HandlerRun.error

\* C19 as stated: every rendered script has the strict-failure directive as
\* its first statement and the change into the target repository as its
\* second, before any other command.
C19_StrictThenCdFirst ==
    script # <<>> =>
        /\ Len(script) >= 2
        /\ script[1] = SetE
        /\ script[2] = Cd(sophia_repo)

\* the statement changes the working directory
IsCd(st) == st.op = "cd"

\* C19, amended: every rendered script has the strict-failure directive as its
\* first statement. The scripts of the command categories change into the
\* target repository as their second statement; the deploy and rollback
\* scripts change into it as their third, after one progress message; the
\* scale and provision scripts never change directory.
C19_StrictFirstCdWhereUsed ==
    script # <<>> =>
        /\ script[1] = SetE
        /\ handler \in CommandHandlers => script[2] = Cd(sophia_repo)
        /\ handler \in {"deploy", "_rollback"} =>
              /\ script[2].op = "echo"
              /\ script[3] = Cd(sophia_repo)
        /\ handler \in {"scale", "provision_infrastructure"} =>
              \A i \in DOMAIN script : ~IsCd(script[i])

\* a deployment script has been rendered, the change into the repository
\* after its first message
C19_Witness ==
    /\ handler = "deploy"
    /\ script # <<>>
    /\ script[2].op = "echo" /\ IsCd(script[3])

\* some line of the output holds "n <kind>"
HasCount(output, kind, n) ==
    \E l \in DOMAIN output :
        \E i \in Matches(output[l], kind) : output[l][i].n = n

\* C20: the counts _parse_test_results returns for passed, failed and skipped
\* are integers taken from the output: a line holding "N passed", "N failed"
\* or "N skipped" sets that count to N, and a count with no such line is 0.
C20_CountsExtracted ==
    test_results # NotParsed =>
        \A kind \in {"passed", "failed", "skipped"} :
            IF \E n \in 0..9 : HasCount(testOutput, kind, n)
            THEN HasCount(testOutput, kind, test_results[kind])
            ELSE test_results[kind] = 0

\* invocation i has a scratch file of its own under /tmp
InFlight(i) == inv[i].pc \in {"spawn", "wait"}

\* C15: any two _run_script calls in flight at the same time use different
\* scratch file paths; no call overwrites, executes or deletes the script
\* file of another.
C15_DistinctScratchPaths ==
    \A i, j \in Invocations :
        (i # j /\ InFlight(i) /\ InFlight(j)) =>
            /\ inv[i].path # inv[j].path
            /\ inv[i].ran \in {0, i}

\* the lines of a text: the runs of characters each ended by a newline, and
\* what is left after the last newline
RECURSIVE Lines(_, _, _)
Lines(text, cur, acc) ==
    IF text = <<>> THEN [whole |-> acc, rest |-> cur]
    ELSE IF Head(text).ch = "\n"
         THEN Lines(Tail(text), <<>>, Append(acc, Append(cur, Head(text))))
         ELSE Lines(Tail(text), Append(cur, Head(text)), acc)

LogLines == Lines(logFile, <<>>, <<>>)

\* line is the complete record of invocation i, written by i alone
IsRecordOf(line, i) ==
    /\ inv[i].status # "none"
    /\ line = WrittenBy(i, LogLine(inv[i]))

\* C16: whatever the interleaving of the execute calls in flight, the audit
\* log is a sequence of whole lines, every line the complete record of one
\* invocation and no two lines of the same invocation; the record of every
\* call that returned is there, so none is split, mixed with another, lost,
\* changed or removed.
C16_AuditLinesWhole ==
    /\ LogLines.rest = <<>>
    /\ \A l \in DOMAIN LogLines.whole :
          \E i \in Invocations :
             /\ IsRecordOf(LogLines.whole[l], i)
             /\ \A k \in DOMAIN LogLines.whole :
                   IsRecordOf(LogLines.whole[k], i) => k = l
    /\ \A i \in Invocations :
          inv[i].got = "returned" =>
             \E l \in DOMAIN LogLines.whole : IsRecordOf(LogLines.whole[l], i)

\* two calls were entered before either wrote, and both records are in the
\* log, that of the call with the higher number first
C16_Witness ==
    /\ Len(LogLines.whole) = 2
    /\ \E i, j \in Invocations :
          /\ i > j
          /\ inv[i].began = 0 /\ inv[j].began = 0
          /\ IsRecordOf(LogLines.whole[1], i)
          /\ IsRecordOf(LogLines.whole[2], j)

\* text is the first n characters of whole
IsFirstChars(text, whole, n) ==
    /\ Len(text) = (IF Len(whole) < n THEN Len(whole) ELSE n)
    /\ \A k \in DOMAIN text : text[k] = whole[k]

\* C21: the audit record of an invocation carries the invocation's command
\* and service, the status execute returns, the user, and as output_preview
\* the first 500 characters of the captured output, or null when the output
\* is empty.
C21_AuditRecordFields ==
    \A k \in DOMAIN auditLog :
        LET e == auditLog[k].entry
        IN  auditLog[k].call = callId =>
              /\ e.command = command /\ e.service = service
              /\ e.user = "ceo"
              /\ e.status = result.status
              /\ callerGot[callId].kind = "returned" =>
                    e.status = callerGot[callId].status
              /\ IF result.output = <<>>
                 THEN ~e.output_preview.some
                 ELSE /\ e.output_preview.some
                      /\ IsFirstChars(e.output_preview.text, result.output, 500)

\* a record was written for an outcome with more than 500 characters of
\* output, and the call returned
C21_Witness ==
    /\ callId >= 1 /\ callerGot[callId].kind = "returned"
    /\ Len(result.output) > 500
    /\ \E k \in DOMAIN auditLog :
          /\ auditLog[k].call = callId
          /\ Len(auditLog[k].entry.output_preview.text) = 500

-----------------------------------------------------------------------------
\* Two deploy calls side by side: the id each of them is given.

\* service names, as the pieces they are written with
IdServices == { <<"api">>, <<"web">>, <<"api", "-", "2">>, <<"2", "0">> }

\* readings of datetime.utcnow(), to the microsecond:
\* <<year, month, day, hour, minute, second, microsecond>>
IdTimes == { <<2024, 1, 9, 23, 59, 58, 0>>,
             <<2024, 1, 9, 23, 59, 59, 0>>,
             <<2024, 1, 9, 23, 59, 59, 999999>>,
             <<2024, 1, 10, 0, 0, 0, 0>>,
             <<2024, 1, 11, 0, 0, 0, 0>>,
             <<2024, 11, 1, 0, 0, 0, 0>> }

\* the two readings fall into the same UTC second
SameSecond(t, u) == \A i \in 1..6 : t[i] = u[i]

IdOfCall(svc, t) == [service |-> svc, at |-> t, id |-> deployment_id_of(svc, t)]

\* two calls of deploy on the main path each build their deployment_id
DeployPair ==
    /\ ids = <<>>
    /\ \E s1 \in IdServices, s2 \in IdServices, t1 \in IdTimes, t2 \in IdTimes :
          ids' = [a |-> IdOfCall(s1, t1), b |-> IdOfCall(s2, t2)]
    /\ UNCHANGED <<agentVars, inv, clock, scratch, logFile, testOutput,
                   test_results, proxy, wf>>

InitIds ==
    /\ InitSide
    /\ InitAgents
    /\ backups = <<>> /\ rootDirs = {} /\ releases = <<>>

NextIds == DeployPair

SpecIds == InitIds /\ [][NextIds]_vars

\* C23: two main-path deploy calls that differ in service, or that start in
\* different UTC seconds, are given different deployment_ids; two calls for
\* the same service that start within the same UTC second are given the same
\* deployment_id.
C23_IdPerServiceAndSecond ==
    ids # <<>> =>
       /\ (ids.a.service # ids.b.service \/ ~SameSecond(ids.a.at, ids.b.at))
             => ids.a.id # ids.b.id
       /\ (ids.a.service = ids.b.service /\ SameSecond(ids.a.at, ids.b.at))
             => ids.a.id = ids.b.id

\* two calls for one service within one second, a moment apart, share an id
C23_Witness ==
    /\ ids # <<>>
    /\ ids.a.service = ids.b.service
    /\ ids.a.at # ids.b.at
    /\ SameSecond(ids.a.at, ids.b.at)
    /\ ids.a.id = ids.b.id

\* C24: within one execute call the audit record is appended after the
\* handler has completed and before execute returns: a caller that has its
\* result finds the record of that call written, with the status it was handed,
\* and while the record of the call under way exists the handler has returned
\* its outcome, no script of it is in flight and execute is at its return.
C24_AuditBeforeReturn ==
    \A c \in DOMAIN callerGot :
       /\ callerGot[c].kind = "returned" =>
             /\ AuditRecordsOf(c) # {}
             /\ \A i \in AuditRecordsOf(c) :
                   auditLog[i].entry.status = callerGot[c].status
       /\ (c = callId /\ AuditRecordsOf(c) # {}) =>
             /\ pc \in {"return", "idle"}
             /\ result # NoResult
             /\ NoRunInFlight
       /\ (c = callId /\ pc = "return") => AuditRecordsOf(c) # {}

\* the record of the call is written and execute has not yet returned
C24_Witness ==
    /\ callId \in DOMAIN callerGot
    /\ pc = "return"
    /\ callerGot[callId].kind = "pending"
    /\ AuditRecordsOf(callId) # {}
    /\ runs > 0

\* the external commands of the main deploy path, by their first words
DeploySteps == << "docker build -t sophia-", "docker tag sophia-",
                  "fly auth token ", "fly deploy --app sophia-",
                  "fly status --app sophia-" >>

\* the external commands the child of the current script has run so far
StepsRun == SelectSeq(trace, LAMBDA s : s.op = "run")

\* the child ran the first commands of the deploy path, in their order, and
\* one that failed is the last one
DeployStepsInOrder ==
    /\ Len(StepsRun) <= Len(DeploySteps)
    /\ \A i \in DOMAIN StepsRun : StepsRun[i].arg[1] = DeploySteps[i]
    /\ (status # 0 /\ StepsRun # <<>> /\ proc = "running")
          => (todo = <<>> \/ Head(todo).op = "exit")

\* C26: on the main deploy path the steps run in the order build, tag,
\* authenticate, push/deploy, health check, each only after every earlier one
\* exited 0, and the status "success" is returned only after the health
\* check ran.
C26_SuccessOnlyAfterHealthCheck ==
    (handler = "deploy" /\ active = "deploy") =>
       /\ DeployStepsInOrder
       /\ (callerGot[callId].kind = "returned"
              /\ callerGot[callId].status = "success")
             => Ran("run", "fly status --app sophia-")

\* the lines of part appear in whole, next to one another and in their order
Retains(whole, part) ==
    \E k \in 0..Len(whole) :
       /\ k + Len(part) <= Len(whole)
       /\ SubSeq(whole, k + 1, k + Len(part)) = part

\* C27: when a main-path deploy ends with status "error", the logs of the
\* returned record retain, in order, the output captured from the steps that
\* ran before the failure.
C27_ErrorKeepsPartialLog ==
    (handler = "deploy" /\ active = "deploy" /\ pc = "idle"
        /\ callerGot[callId].kind = "returned"
        /\ callerGot[callId].status = "error"
        /\ runResult # NoRun) =>
        Retains(result.output, runResult.output)

\* the statement is one of the build, tag, authenticate and push steps of the
\* main deploy path
IsMainPathStep(s) ==
    /\ s.op = "run"
    /\ \/ s.arg[1] \in {"docker build -t sophia-", "docker tag sophia-",
                        "fly auth token "}
       \/ \E i \in DOMAIN s.arg : s.arg[i] = " --image registry.fly.io/sophia-"

\* C28: a deploy call with rollback=true never runs the build, tag,
\* authenticate or push steps, generates no deployment_id and issues no
\* deployment-tracking call.
C28_RollbackSkipsMainPath ==
    (callId >= 1 /\ rollback) =>
       /\ \A i \in DOMAIN trace : ~IsMainPathStep(trace[i])
       /\ \A i \in DOMAIN script : ~IsMainPathStep(script[i])
       /\ deployment_id = <<>> /\ started = NoTime
       /\ result # NoResult => "deployment_id" \notin DOMAIN result
       /\ \A i \in DOMAIN tracking : tracking[i].call # callId
       /\ pc \notin {"track_create", "track_status", "deployed"}

\* a rollback that deployed the earlier release and returned its record
C28_Witness ==
    /\ callId >= 1 /\ rollback
    /\ handler = "_rollback"
    /\ callerGot[callId].kind = "returned"
    /\ callerGot[callId].status = "success"
    /\ Ran("run", "fly deploy --app sophia-")

\* C29: a format invocation whose commit step was invoked ends with exactly
\* one audit record, written under the format command, and with the status
\* of the format script, "success", whatever became of the commit step.
C29_CommitLeavesFormatOutcome ==
    (callId >= 1 /\ handler = "_format_code" /\ CommitSteps # {}
        /\ Ended(callId)) =>
        /\ Cardinality(AuditRecordsOf(callId)) = 1
        /\ \A i \in AuditRecordsOf(callId) :
              /\ auditLog[i].entry.command = command
              /\ auditLog[i].entry.status = "success"
        /\ callerGot[callId] = [kind |-> "returned", status |-> "success"]

\* while a child of the call runs, the call waits for it: it has handed its
\* caller nothing and has written no audit record
WaitsForChild ==
    proc = "running" =>
       /\ pc = "rs_wait"
       /\ callerGot[callId].kind = "pending"
       /\ AuditRecordsOf(callId) = {}

-----------------------------------------------------------------------------
\* The proxy to the helper services: GET and POST /mcp/{service}/{path:path},
\* as app.main serves it and as the router of app.api.mcp serves it. Paths are
\* sequences of characters.

MCP_SERVERS == { "memory", "filesystem", "git", "vector" }

\* ALLOWED_MCP_PATHS["memory"]
AllowedMemoryPaths ==
    { <<"h", "e", "a", "l", "t", "h">>,
      <<"s", "t", "o", "r", "e">>,
      <<"r", "e", "t", "r", "i", "e", "v", "e">>,
      <<"s", "e", "a", "r", "c", "h">>,
      <<"d", "e", "l", "e", "t", "e">> }

ALLOWED_MCP_PATHS(svc) == IF svc = "memory" THEN AllowedMemoryPaths ELSE {}

\* the services and paths requests name
ProxyServices == { "memory", "nope" }
ProxyPaths ==
    { <<"h", "e", "a", "l", "t", "h">>,
      <<"s", "t", "o", "r", "e", "/", "i", "t", "e", "m">>,
      <<"s", "e", "c", "r", "e", "t">>,
      <<".", ".", "/", "s", "e", "c", "r", "e", "t">>,
      <<"a", "/", ".", ".", "/", "b">>,
      <<"x", ".", ".", "y">>,
      <<"h", "t", "t", "p", ":", "/", "/", "e", "v", "i", "l">>,
      <<"h", "t", "t", "p", "d">>,
      <<"/", "/", "e", "v", "i", "l">>,
      <<"/", "h", "e", "a", "l", "t", "h">>,
      <<"h", "e", "a", "l", "t", "h", "?", "x", "=", ".", ".">>,
      <<>> }

\* part in text
Contains(text, part) ==
    \E k \in 0..(Len(text) - Len(part)) :
       SubSeq(text, k + 1, k + Len(part)) = part

\* text.startswith(part)
StartsWith(text, part) ==
    Len(part) <= Len(text) /\ SubSeq(text, 1, Len(part)) = part

\* text.split(sep)[0] and text.split(sep, 1)[0]
RECURSIVE UpTo(_, _)
UpTo(text, sep) ==
    IF text = <<>> \/ Head(text) = sep THEN <<>>
    ELSE <<Head(text)>> \o UpTo(Tail(text), sep)

\* text.lstrip(c)
RECURSIVE LStrip(_, _)
LStrip(text, c) ==
    IF text # <<>> /\ Head(text) = c THEN LStrip(Tail(text), c) ELSE text

\* text.split(sep)
RECURSIVE SplitOn(_, _)
SplitOn(text, sep) ==
    LET first == UpTo(text, sep) IN
    IF Len(first) = Len(text) THEN <<first>>
    ELSE <<first>> \o SplitOn(SubSeq(text, Len(first) + 2, Len(text)), sep)

\* ".." in path or path.startswith("http") or path.startswith("//")
InvalidPath(path) ==
    \/ Contains(path, <<".", ".">>)
    \/ StartsWith(path, <<"h", "t", "t", "p">>)
    \/ StartsWith(path, <<"/", "/">>)

\* path.split("?")[0].lstrip("/").split("/", 1)[0]
FirstSegment(path) == UpTo(LStrip(UpTo(path, "?"), "/"), "/")

\* the raw path of the request, as the client sent it
RawPath(svc, path) == <<"/", "m", "c", "p", "/", svc, "/">> \o path

\* _guard_traversal: a segment of the raw path is ".."
TraversalSegment(raw) ==
    \E i \in DOMAIN SplitOn(raw, "/") : SplitOn(raw, "/")[i] = <<".", ".">>

NoRequest == <<>>

\* the status app.main answers with before forwarding, 0 if it forwards
MainVerdict(req) ==
    IF req.service \notin MCP_SERVERS THEN 404
    ELSE IF InvalidPath(req.path) THEN 400
    ELSE IF req.restrict
            /\ FirstSegment(req.path) \notin ALLOWED_MCP_PATHS(req.service)
         THEN 403
    ELSE 0

\* the status the router of app.api.mcp answers with before forwarding
RouterVerdict(req) ==
    IF TraversalSegment(RawPath(req.service, req.path)) THEN 400
    ELSE IF req.path = <<>> THEN 400
    ELSE IF InvalidPath(req.path) THEN 400
    ELSE IF req.restrict /\ FirstSegment(req.path) # <<>>
            /\ FirstSegment(req.path) \notin ALLOWED_MCP_PATHS(req.service)
         THEN 403
    ELSE IF req.service \notin MCP_SERVERS THEN 404
    ELSE 0

ProxyFrame == UNCHANGED <<agentVars, inv, clock, scratch, logFile, testOutput,
                          test_results, ids, wf>>

\* an authenticated request reaches one of the two applications
ProxyRequest ==
    /\ proxy = NoRequest
    /\ \E app \in {"main", "router"}, meth \in {"GET", "POST"},
          svc \in ProxyServices, p \in ProxyPaths, r \in BOOLEAN :
          proxy' = [app |-> app, method |-> meth, service |-> svc, path |-> p,
                    restrict |-> r, stage |-> "received", status |-> 0,
                    forwarded |-> <<>>]
    /\ ProxyFrame

Answer(req, verdict) ==
    IF verdict = 0 THEN [req EXCEPT !.stage = "forward"]
    ELSE [req EXCEPT !.stage = "answered", !.status = verdict]

\* proxy_mcp_request and proxy_mcp_post of app.main, up to the forwarding
MainProxy ==
    /\ proxy # NoRequest /\ proxy.stage = "received" /\ proxy.app = "main"
    /\ proxy' = Answer(proxy, MainVerdict(proxy))
    /\ ProxyFrame

\* proxy_mcp_request and proxy_mcp_post of app.api.mcp, up to the forwarding
RouterProxy ==
    /\ proxy # NoRequest /\ proxy.stage = "received" /\ proxy.app = "router"
    /\ proxy' = Answer(proxy, RouterVerdict(proxy))
    /\ ProxyFrame

\* client.get / client.post to f"{MCP_SERVERS[service]['url']}/{path}": the
\* helper's status is passed through, a failure is answered 502
Forward ==
    /\ proxy # NoRequest /\ proxy.stage = "forward"
    /\ \/ \E st \in {200, 404} :
             proxy' = [proxy EXCEPT !.stage = "answered", !.status = st,
                          !.forwarded = <<[service |-> proxy.service,
                                           path |-> proxy.path]>>]
       \/ \E sent \in BOOLEAN :
             proxy' = [proxy EXCEPT !.stage = "answered", !.status = 502,
                          !.forwarded = IF sent
                                        THEN <<[service |-> proxy.service,
                                                path |-> proxy.path]>>
                                        ELSE <<>>]
    /\ ProxyFrame

InitProxy ==
    /\ InitNoCalls /\ InitNoParse
    /\ ids = <<>> /\ wf = <<>>
    /\ proxy = NoRequest
    /\ InitAgents
    /\ backups = <<>> /\ rootDirs = {} /\ releases = <<>>

NextProxy == ProxyRequest \/ MainProxy \/ RouterProxy \/ Forward

SpecProxy == InitProxy /\ [][NextProxy]_vars

\* C22: an authenticated proxy request whose path contains ".." or starts
\* with "http" or with "//" is answered with status 400, and no request is
\* forwarded to the helper service.
C22_InvalidPathIs400 ==
    (proxy # NoRequest /\ InvalidPath(proxy.path)) =>
       /\ proxy.forwarded = <<>>
       /\ proxy.stage # "forward"
       /\ proxy.stage = "answered" => proxy.status = 400

-----------------------------------------------------------------------------
\* The event stream of a workflow execution: the generator behind
\* POST /agent/workflow/execute, event line by event line.

\* the most steps a workflow definition holds
MaxSteps == 2

\* _AGENT_MAP
AgentMapKeys == { "architect", "coder", "reviewer", "tester" }
AGENT_MAP(key) ==
    CASE key = "architect" -> "orchestrator"
      [] key = "coder"     -> "developer"
      [] key = "reviewer"  -> "monitor"
      [] key = "tester"    -> "developer"

\* str.lower() on the agent names used here
LowerName(name) == IF name = "Reviewer" THEN "reviewer" ELSE name

\* _AGENT_MAP.get(str(step.get("agent", "developer")).lower(), "developer")
MappedAgent(step) ==
    LET key == LowerName(IF "agent" \in DOMAIN step THEN step.agent
                         ELSE "developer")
    IN  IF key \in AgentMapKeys THEN AGENT_MAP(key) ELSE "developer"

\* what yaml.safe_load may hand over as one step: a mapping, with or without
\* an agent, or a bare scalar (`steps: [build, test]`)
Scalar == [scalar |-> "build"]
StepShapes ==
    { [agent |-> a, action |-> "review"] :
         a \in {"architect", "Reviewer", "ops"} }
    \cup { [action |-> "build"], Scalar }

\* the step lists of the workflow definitions
StepLists == UNION { [1..n -> StepShapes] : n \in 0..MaxSteps }

NoStream == <<>>

Event(name, index) == [event |-> name, index |-> index]

WfFrame == UNCHANGED <<agentVars, inv, clock, scratch, logFile, testOutput,
                       test_results, ids, proxy>>

\* the generator starts: open, thinking, hb
StreamOpen ==
    /\ wf = NoStream
    /\ \E steps \in StepLists :
          wf' = [steps |-> steps, index |-> 1, stage |-> "loop",
                 events |-> << Event("open", 0), Event("thinking", 0),
                               Event("hb", 0) >>]
    /\ WfFrame

\* the head of the loop body: step.get(...) before the try, then step_start.
\* A step that is no mapping has no get: the exception leaves the generator.
StepStart ==
    /\ wf # NoStream /\ wf.stage = "loop" /\ wf.index <= Len(wf.steps)
    /\ LET step == wf.steps[wf.index] IN
       IF step = Scalar
       THEN wf' = [wf EXCEPT !.stage = "raised"]
       ELSE wf' = [wf EXCEPT !.stage = "agent",
                      !.events = Append(@, [event |-> "step_start",
                                            index |-> wf.index,
                                            agent |-> MappedAgent(step)])]
    /\ WfFrame

\* get_agent and agent.arun inside the try: the step ends, or an exception is
\* reported and the loop is left
AgentRuns ==
    /\ wf # NoStream /\ wf.stage = "agent"
    /\ \/ wf' = [wf EXCEPT !.stage = "loop", !.index = @ + 1,
                    !.events = Append(@, Event("step_end", wf.index))]
       \/ wf' = [wf EXCEPT !.stage = "closing",
                    !.events = Append(@, Event("error", wf.index))]
    /\ WfFrame

\* after the loop: done, end
StreamClose ==
    /\ wf # NoStream
    /\ \/ wf.stage = "closing"
       \/ wf.stage = "loop" /\ wf.index > Len(wf.steps)
    /\ wf' = [wf EXCEPT !.stage = "ended",
                 !.events = @ \o << Event("done", 0), Event("end", 0) >>]
    /\ WfFrame

InitStream ==
    /\ InitNoCalls /\ InitNoParse
    /\ ids = <<>> /\ proxy = <<>>
    /\ wf = NoStream
    /\ InitAgents
    /\ backups = <<>> /\ rootDirs = {} /\ releases = <<>>

NextStream == StreamOpen \/ StepStart \/ AgentRuns \/ StreamClose

SpecStream == InitStream /\ [][NextStream]_vars

\* the stream is over: the generator returned, or an exception left it
StreamOver == wf # NoStream /\ wf.stage \in {"ended", "raised"}

\* the events of the steps: each step_start is followed by the step_end or
\* the error of the same step, the steps come in definition order, and no
\* step starts after an error
StepEventsInOrder(ev) ==
    /\ \A i \in DOMAIN ev :
          ev[i].event = "step_start" =>
             /\ ev[i].index =
                   Cardinality({ j \in 1..i : ev[j].event = "step_start" })
             /\ i < Len(ev) =>
                   /\ ev[i + 1].event \in {"step_end", "error"}
                   /\ ev[i + 1].index = ev[i].index
    /\ \A i \in DOMAIN ev :
          ev[i].event \in {"step_end", "error"} =>
             i > 1 /\ ev[i - 1].event = "step_start"
    /\ \A i \in DOMAIN ev, j \in DOMAIN ev :
          (i < j /\ ev[i].event = "error") => ev[j].event # "step_start"

\* C30: the stream emits open, thinking and hb first; then, for the steps in
\* definition order, a step_start followed by a step_end or an error; no step
\* starts after the first error; and in every case the stream ends with done
\* followed by end.
C30_StreamEndsWithDoneEnd ==
    wf # NoStream =>
       LET ev == wf.events
           n  == Len(ev)
       IN  /\ n >= 3
           /\ ev[1].event = "open" /\ ev[2].event = "thinking"
           /\ ev[3].event = "hb"
           /\ StepEventsInOrder(ev)
           /\ StreamOver =>
                 /\ n >= 5
                 /\ ev[n - 1].event = "done" /\ ev[n].event = "end"

=============================================================================
